---- MODULE Spec2Model ----
(***************************************************************************)
(* A model of the traefik JWT plugin (jwt.go): key resolution at           *)
(* construction (New / getKeyFromCertOrJWK), and the per-request pipeline  *)
(* ServeHTTP -> CheckToken -> ExtractToken, VerifyToken, the payload-field *)
(* check and CheckOpa.                                                     *)
(*                                                                         *)
(* What lies outside jwt.go is abstracted by what it returns:              *)
(*  - a key is its Go dynamic type (typ) and its key material (mat);       *)
(*  - a signature is the key material, the algorithm and the signing input *)
(*    it was produced with, and the set of byte positions at which it      *)
(*    differs from that signature (flips); the crypto library accepts it   *)
(*    exactly when nothing was flipped and key, algorithm and input agree; *)
(*  - a configured anchor string is what pem.Decode / x509 / http.Get /    *)
(*    json.Unmarshal / base64 return for it;                               *)
(*  - the policy endpoint's reply is what http.Post / ReadAll return.      *)
(***************************************************************************)
EXTENDS Naturals, Sequences, FiniteSets, TLC

(***************************************************************************)
(* Bounds of the model.                                                    *)
(***************************************************************************)
MaxAnchors == 2     \* length of Config.Keys
SigLen == 2         \* bytes of a signature that may be changed

\* The value of a Go error that is nil.
Nil == "nil"

(***************************************************************************)
(* Keys.                                                                   *)
(***************************************************************************)
\* Go dynamic types a key table value can have.
PtrRSA == "*rsa.PublicKey"
PtrEC == "*ecdsa.PublicKey"
ValRSA == "rsa.PublicKey"
ValEC == "ecdsa.PublicKey"
Bytes == "[]byte"
Ed25519 == "ed25519.PublicKey"

MkKey(t, m) == [typ |-> t, mat |-> m]

\* The empty key table: make(map[string]interface{}).
EmptyKeys == [k \in {} |-> MkKey(Bytes, "")]

\* keys[id] = v on a Go map: the last write wins.
MapPut(keys, id, v) ==
    [k \in (DOMAIN keys) \cup {id} |-> IF k = id THEN v ELSE keys[k]]

\* strconv.Itoa for the sizes a key table can have.
Digits == <<"0", "1", "2", "3", "4", "5", "6", "7", "8", "9">>
Itoa(n) ==
    IF n < 10 THEN Digits[n + 1]
    ELSE Digits[(n \div 10) + 1] \o Digits[(n % 10) + 1]

(***************************************************************************)
(* Anchors: the strings of Config.Keys, each with what the libraries and   *)
(* the network return for it.                                              *)
(***************************************************************************)
NoEntries == << >>

\* A string pem.Decode finds a block in.
PemAnchor(type, rest, parse, ski, key) ==
    [form |-> "pem", type |-> type, rest |-> rest, parse |-> parse,
     ski |-> ski, key |-> key, fetch |-> "", entries |-> NoEntries]

\* A string that is no PEM block but parses as a request URI.
UrlAnchor(fetch, entries) ==
    [form |-> "url", type |-> "", rest |-> FALSE, parse |-> FALSE,
     ski |-> "", key |-> MkKey(Bytes, ""), fetch |-> fetch, entries |-> entries]

\* A string that is neither.
TextAnchor ==
    [form |-> "text", type |-> "", rest |-> FALSE, parse |-> FALSE,
     ski |-> "", key |-> MkKey(Bytes, ""), fetch |-> "", entries |-> NoEntries]

\* One entry of a JWKS document: a is whether n (RSA), x (EC) or k (oct) is
\* unpadded base64url, b whether e (RSA) or y (EC) is.
Jwk(kid, kty, a, b, mat) == [kid |-> kid, kty |-> kty, a |-> a, b |-> b, mat |-> mat]

ErrExtraData == "extra data after a PEM certificate block"
ErrParseCert == "failed to parse a PEM certificate"
ErrParseKey == "failed to parse a PEM public key"
ErrPemType == "failed to extract a Key from the PEM certificate"
ErrBase64 == "illegal base64 data"

\* The loop over jwksKeys.Keys (lines 179-214), from entry j on.
RECURSIVE AddJwksKeys(_, _, _)
AddJwksKeys(entries, j, keys) ==
    IF j > Len(entries) THEN [keys |-> keys, err |-> Nil]
    ELSE LET e == entries[j] IN
         CASE e.kty = "RSA" ->
                IF ~e.a \/ ~e.b THEN [keys |-> EmptyKeys, err |-> ErrBase64]
                ELSE AddJwksKeys(entries, j + 1, MapPut(keys, e.kid, MkKey(ValRSA, e.mat)))
           [] e.kty = "EC" ->
                IF ~e.a \/ ~e.b THEN [keys |-> EmptyKeys, err |-> ErrBase64]
                ELSE AddJwksKeys(entries, j + 1, MapPut(keys, e.kid, MkKey(ValEC, e.mat)))
           [] e.kty = "oct" ->
                IF ~e.a THEN [keys |-> EmptyKeys, err |-> ErrBase64]
                ELSE AddJwksKeys(entries, j + 1, MapPut(keys, e.kid, MkKey(Bytes, e.mat)))
           [] OTHER -> AddJwksKeys(entries, j + 1, keys)

\* A faulty loop body: a JWKS document that cannot be fetched, read or parsed
\* is an error.
AddAnchor_FailClosed(c, keys) ==
    IF c.form = "pem" THEN
        IF c.rest THEN [keys |-> EmptyKeys, err |-> ErrExtraData]
        ELSE IF c.type = "CERTIFICATE" THEN
            IF ~c.parse THEN [keys |-> EmptyKeys, err |-> ErrParseCert]
            ELSE [keys |-> MapPut(keys, c.ski, c.key), err |-> Nil]
        ELSE IF c.type = "PUBLIC KEY" \/ c.type = "RSA PUBLIC KEY" THEN
            IF ~c.parse THEN [keys |-> EmptyKeys, err |-> ErrParseKey]
            ELSE [keys |-> MapPut(keys, Itoa(Cardinality(DOMAIN keys)), c.key), err |-> Nil]
        ELSE [keys |-> EmptyKeys, err |-> ErrPemType]
    ELSE IF c.form = "url" /\ c.fetch = "ok" THEN AddJwksKeys(c.entries, 1, keys)
    ELSE IF c.form = "url" THEN [keys |-> EmptyKeys, err |-> c.fetch]
    ELSE [keys |-> keys, err |-> Nil]

\* One iteration of the loop over certificates (lines 151-219).
AddAnchor(c, keys) ==
    IF c.form = "pem" THEN
        IF c.rest THEN [keys |-> EmptyKeys, err |-> ErrExtraData]
        ELSE IF c.type = "CERTIFICATE" THEN
            IF ~c.parse THEN [keys |-> EmptyKeys, err |-> ErrParseCert]
            ELSE [keys |-> MapPut(keys, c.ski, c.key), err |-> Nil]
        ELSE IF c.type = "PUBLIC KEY" \/ c.type = "RSA PUBLIC KEY" THEN
            IF ~c.parse THEN [keys |-> EmptyKeys, err |-> ErrParseKey]
            ELSE [keys |-> MapPut(keys, Itoa(Cardinality(DOMAIN keys)), c.key), err |-> Nil]
        ELSE [keys |-> EmptyKeys, err |-> ErrPemType]
    ELSE IF c.form = "url" /\ c.fetch = "ok" THEN AddJwksKeys(c.entries, 1, keys)
    ELSE [keys |-> keys, err |-> Nil]

\* getKeyFromCertOrJWK (lines 148-223), from certificate i on.
RECURSIVE ResolveFrom(_, _, _)
ResolveFrom(certificates, i, keys) ==
    IF i > Len(certificates) THEN [keys |-> keys, err |-> Nil]
    ELSE LET r == AddAnchor(certificates[i], keys) IN
         IF r.err # Nil THEN r ELSE ResolveFrom(certificates, i + 1, r.keys)

getKeyFromCertOrJWK(certificates) == ResolveFrom(certificates, 1, EmptyKeys)

(***************************************************************************)
(* Tokens and signatures.                                                  *)
(***************************************************************************)
\* supportedHeaderNames (line 79).
supportedHeaderNames == {"alg", "kid", "typ", "cty", "crit"}

\* tokenAlgorithms (lines 398-411): the hash and the verify function of each
\* JWS alg value.
AlgNames ==
    {"RS256", "RS384", "RS512", "PS256", "PS384", "PS512",
     "ES256", "ES384", "ES512", "HS256", "HS384", "HS512"}

AlgHash(alg) ==
    IF alg \in {"RS256", "PS256", "ES256", "HS256"} THEN "SHA256"
    ELSE IF alg \in {"RS384", "PS384", "ES384", "HS384"} THEN "SHA384"
    ELSE "SHA512"

AlgVerify(alg) ==
    IF alg \in {"RS256", "RS384", "RS512"} THEN "RSAPKCS"
    ELSE IF alg \in {"PS256", "PS384", "PS512"} THEN "RSAPSS"
    ELSE IF alg \in {"ES256", "ES384", "ES512"} THEN "ECDSA"
    ELSE "HMAC"

tokenAlgorithms == [alg \in AlgNames |-> [hash |-> AlgHash(alg), verify |-> AlgVerify(alg)]]

\* The signature a signer holding key material mat produces over the signing
\* input under alg, with no byte changed.
Sign(mat, alg, input) ==
    [mat |-> mat,
     scheme |-> IF alg \in AlgNames THEN AlgVerify(alg) ELSE "none",
     hash |-> IF alg \in AlgNames THEN AlgHash(alg) ELSE "none",
     over |-> input, flips |-> {}]

\* What hmac.Equal, rsa.VerifyPKCS1v15, rsa.VerifyPSS and ecdsa.Verify decide
\* for key material mat: the signature is the one made with mat under this
\* scheme and hash over this input, unchanged.
CryptoAccepts(mat, scheme, hash, input, sig) ==
    /\ sig.flips = {}
    /\ sig.mat = mat
    /\ sig.scheme = scheme
    /\ sig.hash = hash
    /\ sig.over = input

\* The outcome of a verify function that panics (a failed type assertion
\* without the comma-ok form, line 441).
Panic == "panic: interface conversion"

ErrHmacType == "incorrect symmetric key type"
ErrKeyType == "incorrect public key type"
ErrHmac == "token verification failed (HMAC)"
ErrRsaPkcs == "token verification failed (RSAPKCS)"
ErrRsaPss == "token verification failed (RSAPSS)"
ErrEcdsa == "token verification failed (ECDSA)"

\* A faulty verifyHMAC: the MAC is never compared with the signature.
verifyHMAC_NoCompare(key, hash, payload, signature) ==
    IF key.typ # Bytes THEN ErrHmacType ELSE Nil

\* verifyHMAC (lines 414-427).
verifyHMAC(key, hash, payload, signature) ==
    IF key.typ # Bytes THEN ErrHmacType
    ELSE IF ~CryptoAccepts(key.mat, "HMAC", hash, payload, signature) THEN ErrHmac
    ELSE Nil

\* verifyRSAPKCS (lines 440-446): key.(*rsa.PublicKey) has no ok result and
\* panics for every other dynamic type.
verifyRSAPKCS(key, hash, digest, signature) ==
    IF key.typ # PtrRSA THEN Panic
    ELSE IF ~CryptoAccepts(key.mat, "RSAPKCS", hash, digest, signature) THEN ErrRsaPkcs
    ELSE Nil

\* verifyRSAPSS (lines 448-457).
verifyRSAPSS(key, hash, digest, signature) ==
    IF key.typ # PtrRSA THEN ErrKeyType
    ELSE IF ~CryptoAccepts(key.mat, "RSAPSS", hash, digest, signature) THEN ErrRsaPss
    ELSE Nil

\* verifyECDSA (lines 459-472).
verifyECDSA(key, hash, digest, signature) ==
    IF key.typ # PtrEC THEN ErrKeyType
    ELSE IF CryptoAccepts(key.mat, "ECDSA", hash, digest, signature) THEN Nil
    ELSE ErrEcdsa

\* a.verify of a tokenAlgorithms entry: verifyHMAC, or verifyAsymmetric
\* (lines 429-438) around one of the three public-key functions; the digest
\* of the payload under hash stands for the payload.
AlgorithmVerify(a, key, payload, signature) ==
    CASE a.verify = "HMAC" -> verifyHMAC(key, a.hash, payload, signature)
      [] a.verify = "RSAPKCS" -> verifyRSAPKCS(key, a.hash, payload, signature)
      [] a.verify = "RSAPSS" -> verifyRSAPSS(key, a.hash, payload, signature)
      [] a.verify = "ECDSA" -> verifyECDSA(key, a.hash, payload, signature)

ErrUnsupportedHeader == "unsupported header"
ErrUnknownAlg == "unknown JWS algorithm"
ErrIncorrectAlg == "incorrect alg"
ErrValidation == "token validation failed"

\* The result of VerifyToken: its error (Nil, a message or Panic), the checks
\* it ran in order, and the identifiers of the keys a.verify was called with.
VResult(err, checks, tried) == [err |-> err, checks |-> checks, tried |-> tried]

\* The loop over jwtPlugin.keys (lines 332-338) visiting the identifiers in
\* the order ids, from position i on.
RECURSIVE TryKeys(_, _, _, _, _)
TryKeys(keys, a, token, ids, i) ==
    IF i > Len(ids) THEN
        VResult(ErrValidation, <<"crit", "alg", "expected", "lookup">>, ids)
    ELSE LET err == AlgorithmVerify(a, keys[ids[i]], token.Plaintext, token.Signature) IN
         IF err = Nil \/ err = Panic THEN
             VResult(err, <<"crit", "alg", "expected", "lookup">>, SubSeq(ids, 1, i))
         ELSE TryKeys(keys, a, token, ids, i + 1)

\* The orders in which a range over a Go map with these identifiers can
\* visit them: every order.
Orders(S) ==
    {f \in [1..Cardinality(S) -> S] : \A i, j \in 1..Cardinality(S) : f[i] = f[j] => i = j}

\* The key selection of VerifyToken (lines 328-339).
SelectAndVerify(keys, a, token, ids) ==
    IF token.Header.Kid \in DOMAIN keys THEN
        VResult(AlgorithmVerify(a, keys[token.Header.Kid], token.Plaintext, token.Signature),
                <<"crit", "alg", "expected", "lookup">>, <<token.Header.Kid>>)
    ELSE TryKeys(keys, a, token, ids, 1)

\* A faulty VerifyToken: the expected algorithm is never checked.
VerifyTokenIn_NoAlgPin(keys, alg, token, ids) ==
    IF \E i \in 1..Len(token.Header.Crit) : token.Header.Crit[i] \notin supportedHeaderNames THEN
        VResult(ErrUnsupportedHeader, <<"crit">>, << >>)
    ELSE IF token.Header.Alg \notin DOMAIN tokenAlgorithms THEN
        VResult(ErrUnknownAlg, <<"crit", "alg">>, << >>)
    ELSE SelectAndVerify(keys, tokenAlgorithms[token.Header.Alg], token, ids)

\* VerifyToken (lines 314-340) when the map range visits the keys in the
\* order ids.
VerifyTokenIn(keys, alg, token, ids) ==
    IF \E i \in 1..Len(token.Header.Crit) : token.Header.Crit[i] \notin supportedHeaderNames THEN
        VResult(ErrUnsupportedHeader, <<"crit">>, << >>)
    ELSE IF token.Header.Alg \notin DOMAIN tokenAlgorithms THEN
        VResult(ErrUnknownAlg, <<"crit", "alg">>, << >>)
    ELSE IF alg # "" /\ token.Header.Alg # alg THEN
        VResult(ErrIncorrectAlg, <<"crit", "alg", "expected">>, << >>)
    ELSE SelectAndVerify(keys, tokenAlgorithms[token.Header.Alg], token, ids)

\* The results VerifyToken can have: one for each order of the map range.
VerifyToken(keys, alg, token) ==
    {VerifyTokenIn(keys, alg, token, ids) : ids \in Orders(DOMAIN keys)}

(***************************************************************************)
(* Requests.                                                               *)
(***************************************************************************)
\* One dot-separated part of the bearer value: whether it is unpadded
\* base64url, whether its bytes are JSON of the expected shape, and what it
\* decodes to.
Part(b64, json, val) == [b64 |-> b64, json |-> json, val |-> val]

\* A request: whether Header["Authorization"] is present, whether its first
\* value starts with "Bearer ", and the parts of the rest split on ".".
Request(hasAuth, bearer, parts) == [hasAuth |-> hasAuth, bearer |-> bearer, parts |-> parts]

\* A *JSONWebToken is the empty sequence when nil, else the token alone.
NoToken == << >>

ErrFormat == "invalid token format"
ErrJson == "invalid character"

\* A faulty ExtractToken: a value without the bearer prefix is a malformed
\* token, and the parts are neither decoded nor parsed.
ExtractToken_RequiresBearer(request) ==
    IF ~request.hasAuth THEN [token |-> NoToken, err |-> Nil]
    ELSE IF ~request.bearer \/ Len(request.parts) # 3 THEN [token |-> NoToken, err |-> ErrFormat]
    ELSE [token |-> <<[Plaintext |-> <<request.parts[1], request.parts[2]>>,
                       Signature |-> request.parts[3].val,
                       Header |-> request.parts[1].val,
                       Payload |-> request.parts[2].val]>>,
          err |-> Nil]

\* ExtractToken (lines 272-312).
ExtractToken(request) ==
    IF ~request.hasAuth THEN [token |-> NoToken, err |-> Nil]
    ELSE IF ~request.bearer THEN [token |-> NoToken, err |-> Nil]
    ELSE IF Len(request.parts) # 3 THEN [token |-> NoToken, err |-> ErrFormat]
    ELSE IF ~request.parts[1].b64 THEN [token |-> NoToken, err |-> ErrBase64]
    ELSE IF ~request.parts[2].b64 THEN [token |-> NoToken, err |-> ErrBase64]
    ELSE IF ~request.parts[3].b64 THEN [token |-> NoToken, err |-> ErrBase64]
    ELSE IF ~request.parts[1].json THEN [token |-> NoToken, err |-> ErrJson]
    ELSE IF ~request.parts[2].json THEN [token |-> NoToken, err |-> ErrJson]
    ELSE [token |-> <<[Plaintext |-> <<request.parts[1], request.parts[2]>>,
                       Signature |-> request.parts[3].val,
                       Header |-> request.parts[1].val,
                       Payload |-> request.parts[2].val]>>,
          err |-> Nil]

ErrMissingField == "payload missing required field "

\* The loop over payloadFields of CheckToken (lines 245-262), from field i on:
\* the error, and the fields a warning was logged for.
RECURSIVE CheckFields(_, _, _, _, _)
CheckFields(payload, payloadFields, required, i, logged) ==
    IF i > Len(payloadFields) THEN [err |-> Nil, logged |-> logged]
    ELSE IF payloadFields[i] \notin payload THEN
        IF required THEN [err |-> ErrMissingField \o payloadFields[i], logged |-> logged]
        ELSE CheckFields(payload, payloadFields, required, i + 1, Append(logged, payloadFields[i]))
    ELSE CheckFields(payload, payloadFields, required, i + 1, logged)

(***************************************************************************)
(* The policy endpoint.                                                    *)
(***************************************************************************)
\* A response body: its raw text, whether json.Unmarshal into Response
\* succeeds, and the fragments of its "result" mapping.
Body(raw, json, result) == [raw |-> raw, json |-> json, result |-> result]

NoResult == [f \in {} |-> ""]

\* What http.Post and ioutil.ReadAll return: post and read are whether they
\* succeed, status is the response status code.
Reply(post, read, status, body) == [post |-> post, read |-> read, status |-> status, body |-> body]

ErrPost == "Post: connection refused"
ErrRead == "unexpected EOF"
ErrEndOfJson == "unexpected end of JSON input"
ErrUnmarshalBool == "json: cannot unmarshal string into Go value of type bool"

\* CheckOpa (lines 342-374) given the endpoint's reply.
CheckOpa(opaAllowField, reply) ==
    IF ~reply.post THEN ErrPost
    ELSE IF ~reply.read THEN ErrRead
    ELSE IF ~reply.body.json THEN ErrJson
    ELSE IF opaAllowField \notin DOMAIN reply.body.result THEN ErrEndOfJson
    ELSE LET fragment == reply.body.result[opaAllowField] IN
         IF fragment \notin {"true", "false", "null"} THEN ErrUnmarshalBool
         ELSE IF fragment # "true" THEN reply.body.raw
         ELSE Nil

\* The input document of toOPAPayload and CheckOpa (lines 343-347, 376-386):
\* the token's header and payload are set only when a token was parsed.
OpaInput(token) ==
    IF token # NoToken THEN [tokenHeader |-> <<token[1].Header>>, tokenPayload |-> <<token[1].Payload>>]
    ELSE [tokenHeader |-> << >>, tokenPayload |-> << >>]

(***************************************************************************)
(* The plugin as a state machine.                                          *)
(***************************************************************************)
VARIABLES
    pc,         \* where the plugin is: "start", "failed" (New returned an error),
                \* "idle", then per request "extract", "verify", "fields", "opa",
                \* "returned" (CheckToken returned), "done", or "panic"
    config,     \* the Config given to New
    plugin,     \* the JwtPlugin New built: keys, alg, opaUrl, opaAllowField, payloadFields, required
    newErr,     \* the error New returned
    request,    \* the request being served
    token,      \* the token ExtractToken returned
    err,        \* the error CheckToken returns
    vres,       \* the result of the VerifyToken call, if one was made
    logged,     \* payload fields a warning was logged for
    posted,     \* the input documents posted to the policy endpoint
    opaReply,   \* what the policy endpoint replied
    stages,     \* the stages of CheckToken that ran, in order
    response,   \* the response written by ServeHTTP: status and body
    nextCalls   \* how often next.ServeHTTP was called

vars == <<pc, config, plugin, newErr, request, token, err, vres, logged, posted,
          opaReply, stages, response, nextCalls>>

Config(keys, alg, opaUrl, opaAllowField, payloadFields, required) ==
    [Keys |-> keys, Alg |-> alg, OpaUrl |-> opaUrl, OpaAllowField |-> opaAllowField,
     PayloadFields |-> payloadFields, Required |-> required]

NoConfig == Config(<< >>, "", "", "", << >>, FALSE)

NoPlugin ==
    [keys |-> EmptyKeys, alg |-> "", opaUrl |-> "", opaAllowField |-> "",
     payloadFields |-> << >>, required |-> FALSE]

NoRequest == Request(FALSE, FALSE, << >>)
NoVResult == VResult(Nil, << >>, << >>)
NoResponse == [status |-> 0, body |-> ""]
NoReply == [post |-> FALSE, read |-> FALSE, status |-> 0,
            body |-> [raw |-> "", json |-> FALSE, result |-> [f \in {} |-> ""]]]

Init ==
    /\ pc = "start"
    /\ config = NoConfig
    /\ plugin = NoPlugin
    /\ newErr = Nil
    /\ request = NoRequest
    /\ token = NoToken
    /\ err = Nil
    /\ vres = NoVResult
    /\ logged = << >>
    /\ posted = << >>
    /\ opaReply = NoReply
    /\ stages = << >>
    /\ response = NoResponse
    /\ nextCalls = 0

\* New (lines 130-146).
New(c) ==
    /\ pc = "start"
    /\ config' = c
    /\ LET r == getKeyFromCertOrJWK(c.Keys) IN
       IF r.err # Nil THEN
           /\ pc' = "failed"
           /\ newErr' = r.err
           /\ plugin' = plugin
       ELSE
           /\ pc' = "idle"
           /\ newErr' = Nil
           /\ plugin' = [keys |-> r.keys, alg |-> c.Alg, opaUrl |-> c.OpaUrl,
                         opaAllowField |-> c.OpaAllowField,
                         payloadFields |-> c.PayloadFields, required |-> c.Required]
    /\ UNCHANGED <<request, token, err, vres, logged, posted, opaReply, stages, response, nextCalls>>

\* ServeHTTP is called with a request and calls CheckToken (lines 225-226, 233).
Serve(req) ==
    /\ pc = "idle"
    /\ request' = req
    /\ pc' = "extract"
    /\ UNCHANGED <<config, plugin, newErr, token, err, vres, logged, posted, opaReply, stages,
                   response, nextCalls>>

\* Where CheckToken goes once the token checks are over (line 264).
AfterToken == IF plugin.opaUrl # "" THEN "opa" ELSE "returned"

\* A faulty CheckToken: VerifyToken is called whether or not keys are
\* configured.
ExtractStep_AlwaysVerify ==
    /\ pc = "extract"
    /\ LET r == ExtractToken(request) IN
       /\ token' = r.token
       /\ err' = r.err
       /\ pc' = IF r.err # Nil THEN "returned"
                ELSE IF r.token = NoToken THEN AfterToken
                ELSE "verify"
    /\ stages' = Append(stages, "parse")
    /\ UNCHANGED <<config, plugin, newErr, request, vres, logged, posted, opaReply, response, nextCalls>>

\* CheckToken, lines 234-240: ExtractToken and the branch on its result.
ExtractStep ==
    /\ pc = "extract"
    /\ LET r == ExtractToken(request) IN
       /\ token' = r.token
       /\ err' = r.err
       /\ pc' = IF r.err # Nil THEN "returned"
                ELSE IF r.token = NoToken THEN AfterToken
                ELSE IF Cardinality(DOMAIN plugin.keys) > 0 THEN "verify"
                ELSE "fields"
    /\ stages' = Append(stages, "parse")
    /\ UNCHANGED <<config, plugin, newErr, request, vres, logged, posted, opaReply, response, nextCalls>>

\* CheckToken, lines 241-243: the call of VerifyToken.
VerifyStep ==
    /\ pc = "verify"
    /\ \E r \in VerifyToken(plugin.keys, plugin.alg, token[1]) :
        /\ vres' = r
        /\ err' = IF r.err = Panic THEN Nil ELSE r.err
        /\ pc' = IF r.err = Panic THEN "panic"
                 ELSE IF r.err # Nil THEN "returned"
                 ELSE "fields"
    /\ stages' = Append(stages, "verify")
    /\ UNCHANGED <<config, plugin, newErr, request, token, logged, posted, opaReply, response, nextCalls>>

\* CheckToken, lines 245-262: the payload fields.
FieldsStep ==
    /\ pc = "fields"
    /\ LET r == CheckFields(token[1].Payload, plugin.payloadFields, plugin.required, 1, << >>) IN
       /\ err' = r.err
       /\ logged' = r.logged
       /\ pc' = IF r.err # Nil THEN "returned" ELSE AfterToken
    /\ stages' = Append(stages, "fields")
    /\ UNCHANGED <<config, plugin, newErr, request, token, vres, posted, opaReply, response, nextCalls>>

\* CheckToken, lines 264-269: CheckOpa, with the reply of the policy endpoint.
OpaStep(reply) ==
    /\ pc = "opa"
    /\ posted' = Append(posted, OpaInput(token))
    /\ opaReply' = reply
    /\ err' = CheckOpa(plugin.opaAllowField, reply)
    /\ pc' = "returned"
    /\ stages' = Append(stages, "opa")
    /\ UNCHANGED <<config, plugin, newErr, request, token, vres, logged, response, nextCalls>>

StatusForbidden == 403

\* ServeHTTP, lines 226-230: the 403 response or the call of next.
Respond ==
    /\ pc = "returned"
    /\ pc' = "done"
    /\ IF err # Nil THEN
           /\ response' = [status |-> StatusForbidden, body |-> err]
           /\ nextCalls' = nextCalls
       ELSE
           /\ response' = response
           /\ nextCalls' = nextCalls + 1
    /\ UNCHANGED <<config, plugin, newErr, request, token, err, vres, logged, posted, opaReply, stages>>

\* A direct call of VerifyToken on a token.
VerifyCall(tok) ==
    /\ pc = "idle"
    /\ token' = <<tok>>
    /\ \E r \in VerifyToken(plugin.keys, plugin.alg, tok) : vres' = r
    /\ pc' = "verified"
    /\ stages' = Append(stages, "verify")
    /\ UNCHANGED <<config, plugin, newErr, request, err, logged, posted, opaReply, response, nextCalls>>

(***************************************************************************)
(* The inputs the specifications draw from.                                *)
(***************************************************************************)
SeqsUpTo(S, n) == UNION {[1..k -> S] : k \in 0..n}

\* PEM anchors.
PemRsaKey == PemAnchor("PUBLIC KEY", FALSE, TRUE, "", MkKey(PtrRSA, "Kp"))
PemEdKey == PemAnchor("PUBLIC KEY", FALSE, TRUE, "", MkKey(Ed25519, "Kd"))
PemEcCert == PemAnchor("CERTIFICATE", FALSE, TRUE, "", MkKey(PtrEC, "Ke"))
PemRsaCert == PemAnchor("CERTIFICATE", FALSE, TRUE, "a", MkKey(PtrRSA, "Kc"))
PemPkcs1Key == PemAnchor("RSA PUBLIC KEY", FALSE, FALSE, "", MkKey(PtrRSA, "Kp"))
PemTrailing == PemAnchor("PUBLIC KEY", TRUE, TRUE, "", MkKey(PtrRSA, "Kp"))
PemBadCert == PemAnchor("CERTIFICATE", FALSE, FALSE, "", MkKey(PtrRSA, "Kc"))
PemPrivate == PemAnchor("PRIVATE KEY", FALSE, TRUE, "", MkKey(PtrRSA, "Kp"))

\* JWKS URL anchors.
UrlNetErr == UrlAnchor("neterr", NoEntries)
UrlReadErr == UrlAnchor("readerr", NoEntries)
UrlNotJwks == UrlAnchor("badjson", NoEntries)
JwksRsa == UrlAnchor("ok", <<Jwk("a", "RSA", TRUE, TRUE, "Kr")>>)
JwksEc == UrlAnchor("ok", <<Jwk("b", "EC", TRUE, TRUE, "Kj")>>)
JwksOct == UrlAnchor("ok", <<Jwk("a", "oct", TRUE, TRUE, "Ks")>>)
JwksOkp == UrlAnchor("ok", <<Jwk("a", "OKP", TRUE, TRUE, "Kd")>>)
JwksBadK == UrlAnchor("ok", <<Jwk("a", "oct", FALSE, TRUE, "Ks")>>)
JwksBadE == UrlAnchor("ok", <<Jwk("b", "oct", TRUE, TRUE, "Kt"), Jwk("a", "RSA", TRUE, FALSE, "Kr")>>)
JwksBadY == UrlAnchor("ok", <<Jwk("b", "EC", TRUE, FALSE, "Kj")>>)

AllAnchors ==
    {PemRsaKey, PemEdKey, PemEcCert, PemRsaCert, PemPkcs1Key, PemTrailing, PemBadCert,
     PemPrivate, UrlNetErr, UrlReadErr, UrlNotJwks, JwksRsa, JwksEc, JwksOct, JwksOkp,
     JwksBadK, JwksBadE, JwksBadY, TextAnchor}

\* Anchors that resolve, one for each kind of key the table can hold.
KeyAnchors == {PemRsaKey, PemEdKey, PemEcCert, JwksRsa, JwksEc, JwksOct}

ServingAnchors == {UrlNetErr, JwksOct, PemRsaKey}

ResolveConfigs ==
    {Config(ks, "", "", "", << >>, FALSE) : ks \in SeqsUpTo(AllAnchors, MaxAnchors)}

VerifyConfigs ==
    {Config(ks, alg, "", "", << >>, FALSE) :
        ks \in SeqsUpTo(KeyAnchors, MaxAnchors), alg \in {"", "RS256"}}

ServingConfigs ==
    {Config(ks, alg, url, "allow", <<"sub", "role">>, req) :
        ks \in SeqsUpTo(ServingAnchors, MaxAnchors), alg \in {"", "HS256"},
        url \in {"", "http://opa/v1/data/example"}, req \in BOOLEAN}

\* Token headers: an absent kid decodes to the empty string.
Header(alg, kid, crit) == [Alg |-> alg, Kid |-> kid, Crit |-> crit]

FlipSets == {{}} \cup {{i} : i \in 1..SigLen}

\* The three parts of a compact token with this header and payload, signed
\* with key material mat under the header's alg, with the signature bytes at
\* the positions flips changed afterwards.
TokenParts(h, p, mat, flips) ==
    LET hp == Part(TRUE, TRUE, h)
        pp == Part(TRUE, TRUE, p)
    IN  <<hp, pp, Part(TRUE, FALSE, [Sign(mat, h.Alg, <<hp, pp>>) EXCEPT !.flips = flips])>>

\* The same parts with one of them damaged.
Damaged(parts, i, b64, json) == [parts EXCEPT ![i] = Part(b64, json, parts[i].val)]

VerifyHeaders ==
    {Header(alg, kid, crit) :
        alg \in AlgNames \cup {"none"}, kid \in {"", "a", "0"},
        crit \in {<< >>, <<"kid">>, <<"b64">>}}

VerifyTokens ==
    {ExtractToken(Request(TRUE, TRUE, TokenParts(h, {"sub"}, mat, flips))).token[1] :
        h \in VerifyHeaders, mat \in {"Kp", "Ke", "Kr", "Kj", "Ks"}, flips \in FlipSets}

ServingHeaders ==
    {Header(alg, kid, crit) :
        alg \in {"HS256", "RS256", "none"}, kid \in {"", "a"}, crit \in {<< >>, <<"b64">>}}

ServingParts ==
    {TokenParts(h, p, mat, flips) :
        h \in ServingHeaders, p \in {{"sub", "role"}, {"sub"}},
        mat \in {"Ks", "Kp"}, flips \in {{}, {1}}}

SampleParts == TokenParts(Header("HS256", "", << >>), {"sub"}, "Ks", {})

Requests ==
    {Request(TRUE, TRUE, parts) : parts \in ServingParts}
    \cup {Request(FALSE, FALSE, << >>),
          Request(TRUE, FALSE, << >>),
          Request(TRUE, TRUE, SubSeq(SampleParts, 1, 2)),
          Request(TRUE, TRUE, Damaged(SampleParts, 3, FALSE, FALSE)),
          Request(TRUE, TRUE, Damaged(SampleParts, 1, TRUE, FALSE)),
          Request(TRUE, TRUE, Damaged(SampleParts, 2, TRUE, FALSE))}

AllowResult(fragment) == [f \in {"allow"} |-> fragment]

Bodies ==
    {Body("Internal Server Error", FALSE, NoResult),
     Body("{}", TRUE, NoResult),
     Body("{\"result\":{\"deny\":true}}", TRUE, [f \in {"deny"} |-> "true"]),
     Body("{\"result\":{\"allow\":true}}", TRUE, AllowResult("true")),
     Body("{\"result\":{\"allow\":false}}", TRUE, AllowResult("false")),
     Body("{\"result\":{\"allow\":null}}", TRUE, AllowResult("null")),
     Body("{\"result\":{\"allow\":\"yes\"}}", TRUE, AllowResult("\"yes\""))}

Replies ==
    {Reply(FALSE, FALSE, 0, Body("", FALSE, NoResult)),
     Reply(TRUE, FALSE, 200, Body("", FALSE, NoResult))}
    \cup {Reply(TRUE, TRUE, status, body) : status \in {200, 500}, body \in Bodies}

(***************************************************************************)
(* Specifications.                                                         *)
(***************************************************************************)
\* Each action with its inputs drawn from a set; the guard is repeated in
\* front so that the set is enumerated only where the action is enabled.
NewAny == pc = "start" /\ \E c \in ResolveConfigs : New(c)
NewKeys == pc = "start" /\ \E c \in VerifyConfigs : New(c)
NewServing == pc = "start" /\ \E c \in ServingConfigs : New(c)
VerifyAny == pc = "idle" /\ \E tok \in VerifyTokens : VerifyCall(tok)
ServeAny == pc = "idle" /\ \E req \in Requests : Serve(req)
OpaAny == pc = "opa" /\ \E reply \in Replies : OpaStep(reply)

\* The plugin serving a request.
Next ==
    \/ NewServing
    \/ ServeAny
    \/ ExtractStep
    \/ VerifyStep
    \/ FieldsStep
    \/ OpaAny
    \/ Respond

Spec == Init /\ [][Next]_vars

\* Key resolution alone, over every kind of anchor.
NextResolve == NewAny

SpecResolve == Init /\ [][NextResolve]_vars

\* VerifyToken alone, over every algorithm and kind of key.
NextVerify == NewKeys \/ VerifyAny

SpecVerify == Init /\ [][NextVerify]_vars

(***************************************************************************)
(* Properties.                                                             *)
(***************************************************************************)
\* The kind of key a Go value holds, and the kind a verify function needs.
KeyKind(typ) ==
    IF typ \in {PtrRSA, ValRSA} THEN "RSA"
    ELSE IF typ \in {PtrEC, ValEC} THEN "EC"
    ELSE IF typ = Bytes THEN "oct"
    ELSE "other"

SchemeKind(scheme) ==
    IF scheme \in {"RSAPKCS", "RSAPSS"} THEN "RSA"
    ELSE IF scheme = "ECDSA" THEN "EC"
    ELSE "oct"

\* The key cryptographically verifies the token's signature over its signing
\* input under the algorithm named in the token's header.
KeyVerifies(key, tok) ==
    /\ tok.Header.Alg \in AlgNames
    /\ KeyKind(key.typ) = SchemeKind(AlgVerify(tok.Header.Alg))
    /\ CryptoAccepts(key.mat, AlgVerify(tok.Header.Alg), AlgHash(tok.Header.Alg),
                     tok.Plaintext, tok.Signature)

HasKeys == DOMAIN plugin.keys # {}
Ran(stage) == \E i \in 1..Len(stages) : stages[i] = stage
Forwarded == nextCalls > 0 \/ (pc = "returned" /\ err = Nil)

\* C1: with at least one key in the table, a request carrying a well-formed
\* bearer token is forwarded (CheckToken returns nil) only if some key of the
\* table cryptographically verifies the token's signature over its signing
\* input under the algorithm of the token's header.
C1_ForwardedOnlyIfSomeKeyVerifies ==
    (Forwarded /\ token # NoToken /\ HasKeys)
        => \E id \in DOMAIN plugin.keys : KeyVerifies(plugin.keys[id], token[1])

\* A token without a key of its kid in a table of two keys was verified by the
\* loop over the keys and the request was forwarded.
C1_Witness ==
    /\ pc = "done"
    /\ nextCalls = 1
    /\ token # NoToken
    /\ Cardinality(DOMAIN plugin.keys) = 2
    /\ token[1].Header.Kid \notin DOMAIN plugin.keys
    /\ Ran("verify")

BadCrit(tok) == \E i \in 1..Len(tok.Header.Crit) : tok.Header.Crit[i] \notin supportedHeaderNames

\* C4: with an expected algorithm configured, VerifyToken rejects every token
\* whose header alg differs from it, whatever the key table and the signature,
\* with the error of the first failing check in the order crit, algorithm
\* table, expected algorithm, and without looking up a key or calling a verify
\* function.
C4_AlgMismatchRejectedBeforeKeys ==
    (pc = "verified" /\ plugin.alg # "" /\ token[1].Header.Alg # plugin.alg)
        => /\ vres.tried = << >>
           /\ \A i \in 1..Len(vres.checks) : vres.checks[i] # "lookup"
           /\ vres.err = IF BadCrit(token[1]) THEN ErrUnsupportedHeader
                         ELSE IF token[1].Header.Alg \notin AlgNames THEN ErrUnknownAlg
                         ELSE ErrIncorrectAlg

\* RS256 is expected; an HS256 token validly signed with the HMAC secret that
\* the table holds under the token's kid is rejected for its algorithm.
C4_Witness ==
    /\ pc = "verified"
    /\ plugin.alg = "RS256"
    /\ token[1].Header.Alg = "HS256"
    /\ token[1].Header.Kid \in DOMAIN plugin.keys
    /\ KeyVerifies(plugin.keys[token[1].Header.Kid], token[1])
    /\ vres.err = ErrIncorrectAlg

UrlFails(c) == c.form = "url" /\ c.fetch # "ok"

\* C5: with an empty key table CheckToken never calls VerifyToken: every token
\* that parses goes on to the payload-field check whatever its signature, alg
\* and crit entries. A configuration whose only anchor is a JWKS URL that
\* fails to fetch yields an empty table.
C5_EmptyTableSkipsVerification ==
    /\ (pc \notin {"start", "failed"} /\ ~HasKeys /\ token # NoToken)
         => /\ ~Ran("verify")
            /\ vres = NoVResult
            /\ pc # "panic"
            /\ pc = "fields" \/ (Len(stages) >= 2 /\ stages[2] = "fields")
    /\ (pc # "start" /\ Len(config.Keys) = 1 /\ UrlFails(config.Keys[1]))
         => (pc # "failed" /\ ~HasKeys)

\* The only anchor is a JWKS URL that failed to fetch, and a token with an
\* unknown alg, an unsupported crit entry and a changed signature was
\* forwarded.
C5_Witness ==
    /\ pc = "done"
    /\ nextCalls = 1
    /\ Len(config.Keys) = 1
    /\ UrlFails(config.Keys[1])
    /\ token # NoToken
    /\ token[1].Header.Alg \notin AlgNames
    /\ BadCrit(token[1])
    /\ token[1].Signature.flips # {}

\* C6: a request with no Authorization header, or whose first value has no
\* "Bearer " prefix, yields no token and no error; neither VerifyToken nor the
\* payload-field check runs, whatever keys and required fields are
\* configured, and the request is forwarded unless a policy endpoint is
\* configured and the policy call rejects it.
C6_NoBearerTokenSkipsTokenChecks ==
    (pc \in {"fields", "verify", "opa", "returned", "done", "panic"}
     /\ (~request.hasAuth \/ ~request.bearer))
        => /\ token = NoToken
           /\ ~Ran("verify")
           /\ ~Ran("fields")
           /\ pc \in {"opa", "returned", "done"}
           /\ (plugin.opaUrl = "" \/ pc = "opa") => err = Nil
           /\ err # Nil => (stages = <<"parse", "opa">> /\ err = CheckOpa(plugin.opaAllowField, opaReply))
           /\ pc = "done" => (nextCalls = 1 <=> err = Nil)

\* A request without an Authorization header was forwarded by a plugin with
\* keys and required payload fields.
C6_Witness ==
    /\ pc = "done"
    /\ ~request.hasAuth
    /\ HasKeys
    /\ plugin.required
    /\ Len(plugin.payloadFields) > 0
    /\ nextCalls = 1

Reaches(tok) ==
    /\ ~BadCrit(tok)
    /\ tok.Header.Alg \in AlgNames
    /\ plugin.alg = "" \/ tok.Header.Alg = plugin.alg

\* C2: VerifyToken succeeds on a token signed with a key of the table under
\* an algorithm of that key's kind and carrying that key's identifier as kid,
\* and fails on the same token after one signature byte was changed.
C2_TokenOfTableKeyVerifies ==
    (/\ pc = "verified"
     /\ Reaches(token[1])
     /\ token[1].Header.Kid \in DOMAIN plugin.keys
     /\ LET key == plugin.keys[token[1].Header.Kid] IN
        /\ KeyKind(key.typ) = SchemeKind(AlgVerify(token[1].Header.Alg))
        /\ token[1].Signature.mat = key.mat)
        => /\ token[1].Signature.flips = {} => vres.err = Nil
           /\ Cardinality(token[1].Signature.flips) = 1 => vres.err # Nil

\* Some key of the table is accepted by the algorithm's verify function.
SomeKeyAccepted(tok) ==
    \E id \in DOMAIN plugin.keys :
        AlgorithmVerify(tokenAlgorithms[tok.Header.Alg], plugin.keys[id],
                        tok.Plaintext, tok.Signature) = Nil

\* C3: when the token has no kid, or a kid that is no identifier of the key
\* table, and VerifyToken returns, it accepts the token if and only if some
\* key of the table verifies the signature, and fails with "token validation
\* failed" otherwise, for every key table.
C3_NoKidTriesEveryKey ==
    (/\ pc = "verified"
     /\ Reaches(token[1])
     /\ vres.err # Panic
     /\ token[1].Header.Kid = "" \/ token[1].Header.Kid \notin DOMAIN plugin.keys)
        => /\ vres.err = Nil <=> SomeKeyAccepted(token[1])
           /\ ~SomeKeyAccepted(token[1]) => vres.err = ErrValidation

AllowFragment ==
    IF plugin.opaAllowField \in DOMAIN opaReply.body.result
    THEN opaReply.body.result[plugin.opaAllowField]
    ELSE "(missing)"

\* C7: CheckOpa allows the request if and only if the call completed, the
\* status is 2xx, the body decodes and the allow field decodes to true; a
\* decoded false is rejected with the raw body as error text.
C7_OpaAllowsIffTrue ==
    (pc \in {"returned", "done"} /\ Ran("opa"))
        => LET decoded == /\ opaReply.post
                          /\ opaReply.read
                          /\ opaReply.status \in 200..299
                          /\ opaReply.body.json
           IN  /\ err = Nil <=> (decoded /\ AllowFragment = "true")
               /\ (decoded /\ AllowFragment = "false") => err = opaReply.body.raw

PemFault(c) ==
    /\ c.form = "pem"
    /\ c.rest \/ ~c.parse \/ c.type \notin {"CERTIFICATE", "PUBLIC KEY", "RSA PUBLIC KEY"}

\* A JWKS document that was fetched and parsed holds an entry whose n, e, x, y
\* or k is not unpadded base64url.
JwkFault(c) ==
    /\ c.form = "url"
    /\ c.fetch = "ok"
    /\ \E j \in 1..Len(c.entries) :
        \/ c.entries[j].kty \in {"RSA", "EC"} /\ (~c.entries[j].a \/ ~c.entries[j].b)
        \/ c.entries[j].kty = "oct" /\ ~c.entries[j].a

Contributes(c) == ~UrlFails(c) /\ c.form # "text"

\* The table is the one the anchors other than the failing URLs yield.
TableOfTheOtherAnchors ==
    pc = "idle" =>
        /\ newErr = Nil
        /\ plugin.keys = getKeyFromCertOrJWK(SelectSeq(config.Keys, Contributes)).keys

\* C8 as stated: every failure of a JWKS URL anchor, a key entry that is not
\* base64url included, is swallowed, and only PEM anchors make resolution
\* fail.
C8_OnlyPemAnchorsFail ==
    /\ pc = "failed" => \E i \in 1..Len(config.Keys) : PemFault(config.Keys[i])
    /\ TableOfTheOtherAnchors

\* C8 as amended: a JWKS URL that cannot be fetched, read or parsed as a JWKS
\* document is swallowed, contributes no keys and leaves the keys of the other
\* anchors as they are; resolution fails exactly when an anchor is a faulty
\* PEM block or a fetched JWKS document holds an RSA, EC or oct entry that is
\* not base64url, and then with the error of the first such anchor.
C8_FetchFailuresSwallowedDecodeFailuresFatal ==
    /\ pc = "failed" <=>
         (pc # "start" /\ \E i \in 1..Len(config.Keys) :
                              PemFault(config.Keys[i]) \/ JwkFault(config.Keys[i]))
    /\ pc = "failed" =>
         LET first == CHOOSE i \in 1..Len(config.Keys) :
                         /\ PemFault(config.Keys[i]) \/ JwkFault(config.Keys[i])
                         /\ \A j \in 1..(i - 1) :
                              ~(PemFault(config.Keys[j]) \/ JwkFault(config.Keys[j]))
         IN  (newErr = ErrBase64) <=> JwkFault(config.Keys[first])
    /\ TableOfTheOtherAnchors

\* A URL that failed to fetch stands beside a PEM public key, and the table
\* holds that key.
C8_Witness ==
    /\ pc = "idle"
    /\ \E i \in 1..Len(config.Keys) : UrlFails(config.Keys[i])
    /\ \E i \in 1..Len(config.Keys) : config.Keys[i] = PemRsaKey
    /\ \E id \in DOMAIN plugin.keys : plugin.keys[id] = PemRsaKey.key

\* The key is of one of the three kinds and not of the kind the token's
\* algorithm needs.
Mismatch(key, tok) ==
    /\ KeyKind(key.typ) \in {"RSA", "EC", "oct"}
    /\ KeyKind(key.typ) # SchemeKind(AlgVerify(tok.Header.Alg))

\* C9: for every key VerifyToken calls a verify function with, directly or in
\* the loop over the table, whose kind does not match the algorithm, the
\* verify function returns a type-mismatch error: it neither accepts nor
\* panics, so the loop goes on to the next key.
C9_KeyTypeMismatchIsAnError ==
    (pc = "verified" /\ Reaches(token[1])) =>
        \A i \in 1..Len(vres.tried) :
            Mismatch(plugin.keys[vres.tried[i]], token[1])
                => AlgorithmVerify(tokenAlgorithms[token[1].Header.Alg],
                                   plugin.keys[vres.tried[i]],
                                   token[1].Plaintext, token[1].Signature)
                     \in {ErrHmacType, ErrKeyType}

Rank(stage) ==
    CASE stage = "parse" -> 1
      [] stage = "verify" -> 2
      [] stage = "fields" -> 3
      [] stage = "opa" -> 4

\* C10: the stages run in the order parse, verify (only with keys), fields,
\* policy call (only with a policy URL); the first error ends the request
\* with a 403 response carrying it and no later stage runs; the policy
\* endpoint is called at most once; and a request ends with next called
\* exactly once if no stage rejected, and never otherwise.
C10_StagesInOrderThen403OrNext ==
    /\ \A i, j \in 1..Len(stages) : i < j => Rank(stages[i]) < Rank(stages[j])
    /\ Ran("verify") => HasKeys
    /\ Ran("opa") => plugin.opaUrl # ""
    /\ Len(posted) <= 1
    /\ err # Nil => pc \in {"returned", "done"}
    /\ pc \in {"done", "panic"} =>
         /\ nextCalls = 1 <=> err = Nil
         /\ err # Nil => response = [status |-> StatusForbidden, body |-> err]
         /\ err = Nil => response = NoResponse
    /\ pc \notin {"done", "panic"} => (nextCalls = 0 /\ response = NoResponse)

====
